---- MODULE Spec2Model ----
(***************************************************************************)
(* Model of the lightmap baking pipeline of Urho3D/Glow/LightmapBaker.cpp: *)
(* region allocation, G-buffer capture, parallel ray casting and result    *)
(* binding.                                                                *)
(*                                                                         *)
(* Abstractions.  Vectors are one-dimensional integers along the light     *)
(* axis (DotProduct is the product, Normalized the sign).  A UV coordinate *)
(* is the fraction num/den kept unreduced.  A colour is the common value   *)
(* of its four channels.  The ray tracing library is an oracle RayHits.    *)
(* Model sizes are positive.                                               *)
(***************************************************************************)
EXTENDS Integers, Sequences, FiniteSets, TLC

\* ---------------------------------------------------------------- constants
RayPacketSize == 16
ColorWHITE == 1

\* ------------------------------------------------------------------- bounds
MaxReceivers == 2
MaxInits == 2
MaxPadding == 1
MaxBakes == 2
\* TLC integers are 32-bit signed: unsigned is modelled UnsignedBits wide.
UnsignedBits == 16

M_MAX_UNSIGNED == 2 ^ UnsignedBits - 1
RTC_INVALID_GEOMETRY_ID == M_MAX_UNSIGNED

\* representative inputs
LightmapSizes == {16, 24}
ChunkCounts == {1, 2, 3}
Paddings == 0..MaxPadding
ModelSizes == {<<4, 4>>, <<16, 16>>, <<4, 17>>}
GarbageIndices == {0, M_MAX_UNSIGNED}
RenderSeeds == {0, 1}
BaseIndices == {3, M_MAX_UNSIGNED}

VARIABLES
    assertsEnabled,         \* build flavour: assert() compiled in or out
    sceneNodes,             \* receiver nodes of the scene: renderable or not, model lightmap size
    staticModels,           \* lightmap fields of each node's StaticModel component
    status,                 \* "ready" | "aborted" (assert failure or crash)
    numInits,               \* number of Initialize calls so far
    hasImpl,                \* impl_ != nullptr
    settings_,
    lightReceivers_,
    lightmaps_,
    indexedMaps,            \* per receiver, the index at which InitializeLightmapBakingScenes
                            \* indexed the map list (line 334)
    allocLog,               \* per allocated receiver: the packers before, the map chosen, the map count
                            \* after, whether an assert() of the allocation failed
    lastCall,               \* the last public call, what it returned, whether it came right
                            \* after a successful RenderLightmapGBuffer
    sceneObstacles,         \* obstacle nodes of the scene, in list order: the model of each (0: none)
    sceneLights,            \* light nodes of the scene, in list order
    embreeDevice_,
    embreeScene_,
    numCooks,               \* number of CookRaytracingScene calls so far
    embreeObjects,          \* every device and scene the ray tracing library has handed out
    cook,                   \* position and tasks of the running CookRaytracingScene call
    currentLightmapIndex_,
    positionBuffer_,
    smoothPositionBuffer_,
    faceNormalBuffer_,
    smoothNormalBuffer_,
    data,                   \* the caller's LightmapBakedData
    tasks,                  \* band tasks of the running BakeLightmap call
    writers,                \* per output texel, the band tasks that stored to it in this call
    bakeLog,                \* inputs and output of the completed BakeLightmap calls (latest last)
    numBakes                \* number of BakeLightmap calls so far

sceneVars == <<assertsEnabled, sceneNodes, sceneObstacles, sceneLights>>
implVars == <<hasImpl, settings_, lightReceivers_, lightmaps_, indexedMaps, allocLog>>
embreeVars == <<embreeDevice_, embreeScene_, numCooks, embreeObjects, cook>>
gbufferVars == <<currentLightmapIndex_, positionBuffer_, smoothPositionBuffer_,
                 faceNormalBuffer_, smoothNormalBuffer_>>
bakeVars == <<data, tasks, writers, bakeLog, numBakes>>
vars == <<sceneVars, staticModels, status, numInits, implVars, lastCall,
          embreeVars, gbufferVars, bakeVars>>

\* ----------------------------------------------------------------- helpers
Max2(a, b) == IF a >= b THEN a ELSE b
Min2(a, b) == IF a <= b THEN a ELSE b
Unsigned(n) == n % (2 ^ UnsignedBits)

IntRect(x, y, w, h) == [left_ |-> x, top_ |-> y, right_ |-> x + w, bottom_ |-> y + h]
IntRectZERO == IntRect(0, 0, 0, 0)

RectsOverlap(a, b) ==
    /\ a.left_ < b.right_ /\ b.left_ < a.right_
    /\ a.top_ < b.bottom_ /\ b.top_ < a.bottom_

\* A UV coordinate: the float texel / maxSize, kept as an unreduced fraction.
Frac(n, d) == [num |-> n, den |-> d]
FracSub(a, b) == Frac(a.num - b.num, a.den)
FracInUnit(a) == a.num >= 0 /\ a.num <= a.den

\* ------------------------------------------------------------- Rect Packer
\* AreaAllocator is not part of the sources at hand; it is modelled from the
\* specification: a fixed canvas, placements never overlap, the first free
\* position in row-major order is taken, failure when none exists.
AreaAllocatorReset(width, height) == [width |-> width, height |-> height, rects |-> <<>>]

AreaAllocatorFree(al, w, h) ==
    {p \in (0..(al.width - w)) \X (0..(al.height - h)) :
        \A i \in 1..Len(al.rects) : ~RectsOverlap(IntRect(p[1], p[2], w, h), al.rects[i])}

AreaAllocatorAllocate(al, w, h, x0, y0) ==
    LET F == AreaAllocatorFree(al, w, h)
    IN  IF F = {}
        THEN [ok |-> FALSE, x |-> x0, y |-> y0, allocator |-> al]
        ELSE LET p == CHOOSE q \in F : \A r \in F : q[2] < r[2] \/ (q[2] = r[2] /\ q[1] <= r[1])
             IN  [ok |-> TRUE, x |-> p[1], y |-> p[2],
                  allocator |-> [al EXCEPT !.rects = Append(@, IntRect(p[1], p[2], w, h))]]

\* ------------------------------------------------------------ LightmapRegion
\* LightmapRegion storing the index one too far.
LightmapRegion_NextIndex(index, position, size, maxSize) ==
    LET texel == IntRect(position[1], position[2], size[1], size[2])
    IN  [lightmapIndex_ |-> index + 1,
         lightmapTexelRect_ |-> texel,
         lightmapUVRect_ |-> [min_ |-> <<Frac(texel.left_, maxSize), Frac(texel.top_, maxSize)>>,
                              max_ |-> <<Frac(texel.right_, maxSize), Frac(texel.bottom_, maxSize)>>]]

\* Lines 60-66: the texel rectangle, and the UV rectangle relative to maxSize.
LightmapRegion(index, position, size, maxSize) ==
    LET texel == IntRect(position[1], position[2], size[1], size[2])
    IN  [lightmapIndex_ |-> index,
         lightmapTexelRect_ |-> texel,
         lightmapUVRect_ |-> [min_ |-> <<Frac(texel.left_, maxSize), Frac(texel.top_, maxSize)>>,
                              max_ |-> <<Frac(texel.right_, maxSize), Frac(texel.bottom_, maxSize)>>]]

\* The default-constructed region of a receiver: rectangles zero, index not initialised.
DefaultRegion(garbage) ==
    [lightmapIndex_ |-> garbage,
     lightmapTexelRect_ |-> IntRectZERO,
     lightmapUVRect_ |-> [min_ |-> <<Frac(0, 1), Frac(0, 1)>>, max_ |-> <<Frac(0, 1), Frac(0, 1)>>]]

GetScaleOffset(region) ==
    LET offset == region.lightmapUVRect_.min_
        size == <<FracSub(region.lightmapUVRect_.max_[1], region.lightmapUVRect_.min_[1]),
                  FracSub(region.lightmapUVRect_.max_[2], region.lightmapUVRect_.min_[2])>>
    IN  <<size[1], size[2], offset[1], offset[2]>>

\* ------------------------------------------------------------------ Validate
\* Validate without the test of the ray packet width.
Validate_NoPacketCheck(settings) ==
    IF settings.lightmapSize_ % settings.numParallelChunks_ # 0 THEN FALSE
    ELSE TRUE

Validate(settings) ==
    IF settings.lightmapSize_ % settings.numParallelChunks_ # 0 THEN FALSE
    ELSE IF settings.lightmapSize_ % RayPacketSize # 0 THEN FALSE
    ELSE TRUE

\* ---------------------------------------------------- AllocateLightmapRegion
NewLightmapDesc(allocator) == [allocator_ |-> allocator, bakingScene_ |-> <<>>, hasScene |-> FALSE]

PaddedSize(settings, size) ==
    <<size[1] + 2 * settings.lightmapPadding_, size[2] + 2 * settings.lightmapPadding_>>

\* TryExistingMaps starting the loop one map too far.
RECURSIVE TryExistingMaps_OffByOne(_, _, _, _)
TryExistingMaps_OffByOne(settings, lightmaps, size, i) ==
    IF i + 1 > Len(lightmaps)
    THEN [found |-> FALSE]
    ELSE LET padding == settings.lightmapPadding_
             paddedSize == PaddedSize(settings, size)
             r == AreaAllocatorAllocate(lightmaps[i + 1].allocator_, paddedSize[1], paddedSize[2], 0, 0)
         IN  IF r.ok
             THEN [found |-> TRUE,
                   lightmaps |-> [lightmaps EXCEPT ![i + 1].allocator_ = r.allocator],
                   region |-> LightmapRegion(i, <<r.x + padding, r.y + padding>>, size,
                                             settings.lightmapSize_)]
             ELSE TryExistingMaps_OffByOne(settings, lightmaps, size, i + 1)

\* The loop over the existing maps (lines 207-217), from the i-th map on.
RECURSIVE TryExistingMaps(_, _, _, _)
TryExistingMaps(settings, lightmaps, size, i) ==
    IF i > Len(lightmaps)
    THEN [found |-> FALSE]
    ELSE LET padding == settings.lightmapPadding_
             paddedSize == PaddedSize(settings, size)
             r == AreaAllocatorAllocate(lightmaps[i].allocator_, paddedSize[1], paddedSize[2], 0, 0)
         IN  IF r.ok
             THEN [found |-> TRUE,
                   lightmaps |-> [lightmaps EXCEPT ![i].allocator_ = r.allocator],
                   region |-> LightmapRegion(i - 1, <<r.x + padding, r.y + padding>>, size,
                                             settings.lightmapSize_)]
             ELSE TryExistingMaps(settings, lightmaps, size, i + 1)

\* The test that routes a receiver to a dedicated map (line 224).
NeedsDedicatedMap(settings, size) ==
    size[1] > settings.lightmapSize_ \/ size[2] > settings.lightmapSize_

\* AllocateLightmapRegion sizing a dedicated map by the width as it is, not rounded up.
AllocateLightmapRegion_NoRounding(settings, lightmaps, size) ==
    LET padding == settings.lightmapPadding_
        paddedSize == PaddedSize(settings, size)
        existing == TryExistingMaps(settings, lightmaps, size, 1)
        lightmapIndex == Len(lightmaps)
        lightmapSize == settings.lightmapSize_
    IN  IF existing.found
        THEN [lightmaps |-> existing.lightmaps, region |-> existing.region, assertFailed |-> FALSE]
        ELSE IF NeedsDedicatedMap(settings, size)
        THEN LET sizeX == size[1]
                 r == AreaAllocatorAllocate(AreaAllocatorReset(sizeX, size[2]), sizeX, size[2], 0, 0)
             IN  [lightmaps |-> Append(lightmaps, NewLightmapDesc(r.allocator)),
                  region |-> LightmapRegion(lightmapIndex, <<0, 0>>, size, settings.lightmapSize_),
                  assertFailed |-> ~(r.ok /\ r.x = 0 /\ r.y = 0)]
        ELSE LET r == AreaAllocatorAllocate(AreaAllocatorReset(lightmapSize, lightmapSize),
                                            paddedSize[1], paddedSize[2], 0, 0)
             IN  [lightmaps |-> Append(lightmaps, NewLightmapDesc(r.allocator)),
                  region |-> LightmapRegion(lightmapIndex, <<r.x + padding, r.y + padding>>, size,
                                            settings.lightmapSize_),
                  assertFailed |-> ~(r.ok /\ r.x = 0 /\ r.y = 0)]

\* Result: the maps, the region, and whether an assert() of the function failed.
AllocateLightmapRegion(settings, lightmaps, size) ==
    LET padding == settings.lightmapPadding_
        paddedSize == PaddedSize(settings, size)
        existing == TryExistingMaps(settings, lightmaps, size, 1)
        lightmapIndex == Len(lightmaps)
        lightmapSize == settings.lightmapSize_
    IN  IF existing.found
        THEN [lightmaps |-> existing.lightmaps, region |-> existing.region, assertFailed |-> FALSE]
        ELSE IF NeedsDedicatedMap(settings, size)
        THEN LET sizeX == ((size[1] + RayPacketSize - 1) \div RayPacketSize) * RayPacketSize
                 r == AreaAllocatorAllocate(AreaAllocatorReset(sizeX, size[2]), sizeX, size[2], 0, 0)
             IN  [lightmaps |-> Append(lightmaps, NewLightmapDesc(r.allocator)),
                  region |-> LightmapRegion(lightmapIndex, <<0, 0>>, size, settings.lightmapSize_),
                  assertFailed |-> ~(r.ok /\ r.x = 0 /\ r.y = 0)]
        ELSE LET r == AreaAllocatorAllocate(AreaAllocatorReset(lightmapSize, lightmapSize),
                                            paddedSize[1], paddedSize[2], 0, 0)
             IN  [lightmaps |-> Append(lightmaps, NewLightmapDesc(r.allocator)),
                  region |-> LightmapRegion(lightmapIndex, <<r.x + padding, r.y + padding>>, size,
                                            settings.lightmapSize_),
                  assertFailed |-> ~(r.ok /\ r.x = 0 /\ r.y = 0)]

\* --------------------------------------------------- AllocateLightmapRegions
\* Receivers i..n in order; a failed assert stops the loop when asserts are
\* compiled in, and is ignored otherwise.
RECURSIVE AllocateLightmapRegions(_, _, _, _, _)
AllocateLightmapRegions(settings, lightReceivers, lightmaps, i, asserts) ==
    IF i > Len(lightReceivers)
    THEN [lightReceivers |-> lightReceivers, lightmaps |-> lightmaps, assertFailed |-> FALSE, log |-> <<>>]
    ELSE LET node == sceneNodes[lightReceivers[i].node_]
         IN  IF node.model
             THEN LET a == AllocateLightmapRegion(settings, lightmaps, node.size)
                      recv == [lightReceivers EXCEPT ![i].staticModel_ = TRUE, ![i].region_ = a.region]
                      entry == [receiver |-> i,
                                before |-> [k \in 1..Len(lightmaps) |-> lightmaps[k].allocator_],
                                index |-> a.region.lightmapIndex_,
                                numAfter |-> Len(a.lightmaps),
                                assertFailed |-> a.assertFailed]
                  IN  IF a.assertFailed /\ asserts
                      THEN [lightReceivers |-> recv, lightmaps |-> a.lightmaps, assertFailed |-> TRUE,
                            log |-> <<entry>>]
                      ELSE LET rest == AllocateLightmapRegions(settings, recv, a.lightmaps, i + 1, asserts)
                           IN  [rest EXCEPT !.log = <<entry>> \o @]
             ELSE AllocateLightmapRegions(settings, lightReceivers, lightmaps, i + 1, asserts)

\* -------------------------------------------- InitializeLightmapBakingScenes
\* Every map gets a baking scene; every receiver indexes the maps by its
\* region's index (line 334), and a receiver with a model is cloned into that
\* scene with its scale/offset as the LMOffset shader parameter.
RECURSIVE PrepareBakingScenes(_, _, _)
PrepareBakingScenes(lightmaps, lightReceivers, i) ==
    IF i > Len(lightReceivers)
    THEN [lightmaps |-> lightmaps, outOfRange |-> FALSE, indexed |-> <<>>]
    ELSE LET receiver == lightReceivers[i]
             index == receiver.region_.lightmapIndex_
         IN  IF index >= Len(lightmaps)
             THEN LET rest == PrepareBakingScenes(lightmaps, lightReceivers, i + 1)
                  IN  [lightmaps |-> rest.lightmaps, outOfRange |-> TRUE,
                       indexed |-> <<index>> \o rest.indexed]
             ELSE IF receiver.staticModel_
             THEN LET rest == PrepareBakingScenes(
                                  [lightmaps EXCEPT ![index + 1].bakingScene_ =
                                      Append(@, [node_ |-> receiver.node_,
                                                 LMOffset |-> GetScaleOffset(receiver.region_)])],
                                  lightReceivers, i + 1)
                  IN  [rest EXCEPT !.indexed = <<index>> \o @]
             ELSE LET rest == PrepareBakingScenes(lightmaps, lightReceivers, i + 1)
                  IN  [rest EXCEPT !.indexed = <<index>> \o @]

InitializeLightmapBakingScenes(lightmaps, lightReceivers) ==
    PrepareBakingScenes([k \in 1..Len(lightmaps) |-> [lightmaps[k] EXCEPT !.hasScene = TRUE]],
                        lightReceivers, 1)

\* The constructor of LightmapBakerImpl: one receiver per node, region not initialised.
LightmapBakerImpl(garbage) ==
    [i \in 1..Len(sceneNodes) |-> [node_ |-> i, staticModel_ |-> FALSE, region_ |-> DefaultRegion(garbage)]]

GetNumLightmaps == Len(lightmaps_)

\* ------------------------------------------------------------------ the scene
NodeKinds ==
    {[model |-> FALSE, size |-> <<0, 0>>]} \cup {[model |-> TRUE, size |-> s] : s \in ModelSizes}

SeqsUpTo(S, n) == UNION {[1..k -> S] : k \in 0..n}

LightNone == [light |-> "none", direction |-> 0]
LightPoint == [light |-> "point", direction |-> 1]
LightDirectional(d) == [light |-> "directional", direction |-> d]
LightLists ==
    {<<>>, <<LightNone>>, <<LightPoint, LightNone>>,
     <<LightDirectional(2)>>, <<LightDirectional(1), LightDirectional(-1)>>,
     <<LightNone, LightPoint, LightDirectional(-1), LightDirectional(1)>>}

DefaultStaticModel ==
    [lightmap_ |-> FALSE, lightmapIndex_ |-> 0,
     lightmapScaleOffset_ |-> <<Frac(1, 1), Frac(1, 1), Frac(0, 1), Frac(0, 1)>>]

NoCall == [op |-> "none", arg |-> 0, ret |-> "none", afterRender |-> FALSE]
EmptyData == [lightmapSize_ |-> <<0, 0>>, backedLighting_ |-> <<>>]
NoSettings == [lightmapSize_ |-> 0, numParallelChunks_ |-> 0, lightmapPadding_ |-> 0]

SettingsSet ==
    {[lightmapSize_ |-> l, numParallelChunks_ |-> c, lightmapPadding_ |-> p] :
        l \in LightmapSizes, c \in ChunkCounts, p \in Paddings}

Scenes == SeqsUpTo(NodeKinds, MaxReceivers)

ObstacleNone == [model |-> 0]
Obstacle(m) == [model |-> m]
ObstacleLists ==
    {<<>>, <<Obstacle(1)>>, <<Obstacle(1), ObstacleNone, Obstacle(1)>>, <<Obstacle(2), Obstacle(1)>>}

NoCook == [pc |-> "idle", models |-> <<>>, parsedModelCache |-> {}, geometries |-> <<>>, joined |-> 0]

InitWith(builds, nodeLists, obstacleLists, lightLists) ==
    /\ assertsEnabled \in builds
    /\ sceneNodes \in nodeLists
    /\ sceneObstacles \in obstacleLists
    /\ sceneLights \in lightLists
    /\ staticModels = [n \in 1..Len(sceneNodes) |-> DefaultStaticModel]
    /\ status = "ready"
    /\ numInits = 0
    /\ hasImpl = FALSE
    /\ settings_ = NoSettings
    /\ lightReceivers_ = <<>>
    /\ lightmaps_ = <<>>
    /\ indexedMaps = <<>>
    /\ allocLog = <<>>
    /\ lastCall = NoCall
    /\ embreeDevice_ = 0
    /\ embreeScene_ = 0
    /\ numCooks = 0
    /\ embreeObjects = <<>>
    /\ cook = NoCook
    /\ currentLightmapIndex_ = M_MAX_UNSIGNED
    /\ positionBuffer_ = <<>>
    /\ smoothPositionBuffer_ = <<>>
    /\ faceNormalBuffer_ = <<>>
    /\ smoothNormalBuffer_ = <<>>
    /\ data = EmptyData
    /\ tasks = <<>>
    /\ writers = <<>>
    /\ bakeLog = <<>>
    /\ numBakes = 0

Init == InitWith(BOOLEAN, Scenes, ObstacleLists, LightLists)

\* Idle with BakeLightmap returning before its band tasks are joined.
Idle_TasksRunning == status = "ready" /\ cook.pc = "idle"

\* The caller is between two calls: the call before has returned, which for
\* BakeLightmap means every band task has been waited for (lines 700-703).
Idle == status = "ready" /\ tasks = <<>> /\ cook.pc = "idle"

\* The values uninitialised memory may hold matter only when some receiver has
\* no renderable component.
SomeNodeWithoutModel == \E n \in 1..Len(sceneNodes) : ~sceneNodes[n].model
GarbageChoices == IF SomeNodeWithoutModel THEN GarbageIndices ELSE {0}
CrashChoices == IF SomeNodeWithoutModel THEN BOOLEAN ELSE {FALSE}

Returned(op, arg, ret) ==
    lastCall' = [op |-> op, arg |-> arg, ret |-> ret,
                 afterRender |-> lastCall.op = "RenderLightmapGBuffer" /\ lastCall.ret = "true"]

\* ------------------------------------------------------- ~LightmapBakerImpl
\* Lines 124-130: the scene, then the device, are released if they are set.
rtcRelease(objects, handle) ==
    IF handle = 0 THEN objects
    ELSE [objects EXCEPT ![handle].releases = @ + 1]

LightmapBakerImplDestructor(objects, device, scene) ==
    rtcRelease(rtcRelease(objects, scene), device)

\* ----------------------------------------------------------------- Initialize
\* A fresh impl_ replaces the old one (whose destructor drops the Embree
\* handles); garbage is the value the receivers' uninitialised region index
\* happens to hold, crash whether an out-of-range read of the map list faults.
Initialize(settings, garbage, crash) ==
    /\ Idle
    /\ numInits < MaxInits
    /\ numInits' = numInits + 1
    /\ hasImpl' = TRUE
    /\ settings_' = settings
    /\ embreeDevice_' = 0
    /\ embreeScene_' = 0
    /\ embreeObjects' = (IF hasImpl
                         THEN LightmapBakerImplDestructor(embreeObjects, embreeDevice_, embreeScene_)
                         ELSE embreeObjects)
    /\ currentLightmapIndex_' = M_MAX_UNSIGNED
    /\ positionBuffer_' = <<>>
    /\ smoothPositionBuffer_' = <<>>
    /\ faceNormalBuffer_' = <<>>
    /\ smoothNormalBuffer_' = <<>>
    /\ UNCHANGED <<sceneVars, staticModels, numCooks, cook, bakeVars>>
    /\ IF ~Validate(settings)
       THEN /\ lightReceivers_' = LightmapBakerImpl(garbage)
            /\ lightmaps_' = <<>>
            /\ indexedMaps' = <<>>
            /\ allocLog' = <<>>
            /\ status' = status
            /\ Returned("Initialize", 0, "false")
       ELSE \E a \in {AllocateLightmapRegions(settings, LightmapBakerImpl(garbage), <<>>, 1, assertsEnabled)} :
            \E b \in {InitializeLightmapBakingScenes(a.lightmaps, a.lightReceivers)} :
                /\ allocLog' = a.log
                /\ indexedMaps' = (IF a.assertFailed THEN <<>> ELSE b.indexed)
                /\ IF a.assertFailed
                   THEN /\ lightReceivers_' = a.lightReceivers
                        /\ lightmaps_' = a.lightmaps
                        /\ status' = "aborted"
                        /\ Returned("Initialize", 0, "none")
                   ELSE IF b.outOfRange /\ crash
                   THEN /\ lightReceivers_' = a.lightReceivers
                        /\ lightmaps_' = a.lightmaps
                        /\ status' = "aborted"
                        /\ Returned("Initialize", 0, "none")
                   ELSE /\ lightReceivers_' = a.lightReceivers
                        /\ lightmaps_' = b.lightmaps
                        /\ status' = status
                        /\ Returned("Initialize", 0, "true")

\* ------------------------------------------------------ ApplyLightmapsToScene
\* ApplyToStaticModel binding the region's own index, the base forgotten.
ApplyToStaticModel_NoBase(receiver, baseLightmapIndex, staticModel) ==
    IF receiver.staticModel_
    THEN [lightmap_ |-> TRUE,
          lightmapIndex_ |-> Unsigned(receiver.region_.lightmapIndex_),
          lightmapScaleOffset_ |-> GetScaleOffset(receiver.region_)]
    ELSE staticModel

ApplyToStaticModel(receiver, baseLightmapIndex, staticModel) ==
    IF receiver.staticModel_
    THEN [lightmap_ |-> TRUE,
          lightmapIndex_ |-> Unsigned(baseLightmapIndex + receiver.region_.lightmapIndex_),
          lightmapScaleOffset_ |-> GetScaleOffset(receiver.region_)]
    ELSE staticModel

\* ApplyLightmapsToScene writing the index of every receiver, the test of
\* staticModel_ applied to the scale and offset only.
ApplyLightmapsToScene_AllNodes(baseLightmapIndex) ==
    /\ Idle
    /\ hasImpl
    /\ staticModels' = [n \in 1..Len(sceneNodes) |->
                           IF lightReceivers_[n].staticModel_
                           THEN ApplyToStaticModel(lightReceivers_[n], baseLightmapIndex, staticModels[n])
                           ELSE [staticModels[n] EXCEPT !.lightmapIndex_ = Unsigned(baseLightmapIndex)]]
    /\ Returned("ApplyLightmapsToScene", baseLightmapIndex, "void")
    /\ UNCHANGED <<sceneVars, status, numInits, implVars, embreeVars, gbufferVars, bakeVars>>

ApplyLightmapsToScene(baseLightmapIndex) ==
    /\ Idle
    /\ hasImpl
    /\ staticModels' = [n \in 1..Len(sceneNodes) |->
                           ApplyToStaticModel(lightReceivers_[n], baseLightmapIndex, staticModels[n])]
    /\ Returned("ApplyLightmapsToScene", baseLightmapIndex, "void")
    /\ UNCHANGED <<sceneVars, status, numInits, implVars, embreeVars, gbufferVars, bakeVars>>

\* -------------------------------------------------------- CookRaytracingScene
MaxCooks == 2

ObstaclesWithModel == {n \in 1..Len(sceneObstacles) : sceneObstacles[n].model # 0}

RECURSIVE NodesWithModel(_)
NodesWithModel(n) ==
    IF n > Len(sceneObstacles) THEN <<>>
    ELSE (IF sceneObstacles[n].model # 0 THEN <<n>> ELSE <<>>) \o NodesWithModel(n + 1)

\* Lines 507-513: one asynchronous import per obstacle node that has a model.
CookRaytracingScene ==
    /\ Idle
    /\ hasImpl
    /\ numCooks < MaxCooks
    /\ numCooks' = numCooks + 1
    /\ cook' = [pc |-> "models",
                models |-> [t \in 1..Len(NodesWithModel(1)) |->
                              [node_ |-> NodesWithModel(1)[t],
                               model_ |-> sceneObstacles[NodesWithModel(1)[t]].model,
                               state |-> "running"]],
                parsedModelCache |-> {},
                geometries |-> <<>>,
                joined |-> 0]
    /\ Returned("CookRaytracingScene", 0, "pending")
    /\ UNCHANGED <<sceneVars, staticModels, status, numInits, implVars, embreeDevice_, embreeScene_,
                   embreeObjects, gbufferVars, bakeVars>>

\* Lines 356-366: an import task parses its model into a view of its own.
ParseModelForEmbree(t) ==
    /\ status = "ready"
    /\ cook.pc = "models"
    /\ t \in 1..Len(cook.models)
    /\ cook.models[t].state = "running"
    /\ cook' = [cook EXCEPT !.models[t].state = "done"]
    /\ UNCHANGED <<sceneVars, staticModels, status, numInits, implVars, lastCall, embreeDevice_,
                   embreeScene_, numCooks, embreeObjects, gbufferVars, bakeVars>>

\* Lines 516-521: the caller takes the result of the next import, in launch
\* order, and puts it in the cache.
PrepareModelCache ==
    /\ status = "ready"
    /\ cook.pc = "models"
    /\ cook.joined < Len(cook.models)
    /\ cook.models[cook.joined + 1].state = "done"
    /\ cook' = [cook EXCEPT !.models[cook.joined + 1].state = "joined",
                            !.parsedModelCache = @ \cup {cook.models[cook.joined + 1].model_},
                            !.joined = @ + 1]
    /\ UNCHANGED <<sceneVars, staticModels, status, numInits, implVars, lastCall, embreeDevice_,
                   embreeScene_, numCooks, embreeObjects, gbufferVars, bakeVars>>

\* A device or scene of the ray tracing library: the nodes whose geometry is
\* attached, every geometry attached (in order), commits and releases.
rtcNewDevice == [kind |-> "device", attached |-> {}, geometries |-> <<>>, commits |-> 0, releases |-> 0]
rtcNewScene == [kind |-> "scene", attached |-> {}, geometries |-> <<>>, commits |-> 0, releases |-> 0]

\* The parsed view of a model asset: per geometry, its number of LOD levels.
ModelView(model) == IF model = 1 THEN <<1>> ELSE <<2, 1>>

\* Lines 523-535: a new device and a new scene overwrite the handles the impl
\* holds; one asynchronous geometry task per obstacle node that has a model.
PrepareEmbreeScene ==
    /\ status = "ready"
    /\ cook.pc = "models"
    /\ cook.joined = Len(cook.models)
    /\ embreeObjects' = embreeObjects \o <<rtcNewDevice, rtcNewScene>>
    /\ embreeDevice_' = Len(embreeObjects) + 1
    /\ embreeScene_' = Len(embreeObjects) + 2
    /\ cook' = [cook EXCEPT !.pc = "geometries",
                            !.geometries = [t \in 1..Len(cook.models) |->
                                               [node_ |-> cook.models[t].node_,
                                                model_ |-> cook.models[t].model_,
                                                result |-> <<>>,
                                                state |-> "running"]],
                            !.joined = 0]
    /\ UNCHANGED <<sceneVars, staticModels, status, numInits, implVars, lastCall, numCooks,
                   gbufferVars, bakeVars>>

\* Lines 418-435: one geometry per LOD level of every geometry of the model,
\* from geometry index g - 1 on.
RECURSIVE EmbreeGeometryArray(_, _, _)
EmbreeGeometryArray(modelView, node, g) ==
    IF g > Len(modelView) THEN <<>>
    ELSE [l \in 1..modelView[g] |-> [node_ |-> node, geometryIndex_ |-> g - 1, geometryLOD_ |-> l - 1]]
         \o EmbreeGeometryArray(modelView, node, g + 1)

\* A geometry task builds the geometries of its node.
CreateEmbreeGeometryArray(t) ==
    /\ status = "ready"
    /\ cook.pc = "geometries"
    /\ t \in 1..Len(cook.geometries)
    /\ cook.geometries[t].state = "running"
    /\ cook' = [cook EXCEPT !.geometries[t].state = "done",
                            !.geometries[t].result =
                                EmbreeGeometryArray(ModelView(cook.geometries[t].model_),
                                                    cook.geometries[t].node_, 1)]
    /\ UNCHANGED <<sceneVars, staticModels, status, numInits, implVars, lastCall, embreeDevice_,
                   embreeScene_, numCooks, embreeObjects, gbufferVars, bakeVars>>

\* Lines 537-546: the caller takes the result of the next geometry task, in
\* launch order, and attaches its geometries to the scene.
AttachEmbreeGeometries ==
    /\ status = "ready"
    /\ cook.pc = "geometries"
    /\ cook.joined < Len(cook.geometries)
    /\ cook.geometries[cook.joined + 1].state = "done"
    /\ cook' = [cook EXCEPT !.geometries[cook.joined + 1].state = "joined", !.joined = @ + 1]
    /\ embreeObjects' = [embreeObjects EXCEPT
                             ![embreeScene_].attached = @ \cup {cook.geometries[cook.joined + 1].node_},
                             ![embreeScene_].geometries = @ \o cook.geometries[cook.joined + 1].result]
    /\ UNCHANGED <<sceneVars, staticModels, status, numInits, implVars, lastCall, embreeDevice_,
                   embreeScene_, numCooks, gbufferVars, bakeVars>>

\* CommitEmbreeScene committing as soon as the geometry tasks are launched.
CommitEmbreeScene_Early ==
    /\ status = "ready"
    /\ cook.pc = "geometries"
    /\ cook' = NoCook
    /\ embreeObjects' = [embreeObjects EXCEPT ![embreeScene_].commits = @ + 1]
    /\ lastCall' = [lastCall EXCEPT !.ret = "void"]
    /\ UNCHANGED <<sceneVars, staticModels, status, numInits, implVars, embreeDevice_,
                   embreeScene_, numCooks, gbufferVars, bakeVars>>

\* Line 548: every geometry task has been taken; the scene is committed and
\* the call returns.
CommitEmbreeScene ==
    /\ status = "ready"
    /\ cook.pc = "geometries"
    /\ cook.joined = Len(cook.geometries)
    /\ cook' = NoCook
    /\ embreeObjects' = [embreeObjects EXCEPT ![embreeScene_].commits = @ + 1]
    /\ lastCall' = [lastCall EXCEPT !.ret = "void"]
    /\ UNCHANGED <<sceneVars, staticModels, status, numInits, implVars, embreeDevice_,
                   embreeScene_, numCooks, gbufferVars, bakeVars>>

CookSteps ==
    \/ \E t \in 1..Len(cook.models) : ParseModelForEmbree(t)
    \/ PrepareModelCache
    \/ PrepareEmbreeScene
    \/ \E t \in 1..Len(cook.geometries) : CreateEmbreeGeometryArray(t)
    \/ AttachEmbreeGeometries
    \/ CommitEmbreeScene

\* ------------------------------------------------------ RenderLightmapGBuffer
\* What the baking render path leaves in the render targets of a map.  A texel
\* is covered when its centre, in UV space, lies in the rectangle that the
\* LMOffset parameter of some clone of the baking scene selects; seed varies
\* the geometry inside the rectangle (holes, normals).
TexelCovered(clone, x, y, width, height) ==
    LET sx == clone.LMOffset[1]
        sy == clone.LMOffset[2]
        ox == clone.LMOffset[3]
        oy == clone.LMOffset[4]
    IN  /\ ox.num * 2 * width <= (2 * x + 1) * ox.den
        /\ (2 * x + 1) * ox.den <= (ox.num + sx.num) * 2 * width
        /\ oy.num * 2 * height <= (2 * y + 1) * oy.den
        /\ (2 * y + 1) * oy.den <= (oy.num + sy.num) * 2 * height

CoveringClones(lightmapDesc, x, y) ==
    {c \in 1..Len(lightmapDesc.bakingScene_) :
        TexelCovered(lightmapDesc.bakingScene_[c], x, y,
                     lightmapDesc.allocator_.width, lightmapDesc.allocator_.height)}

RenderedMarker(lightmapDesc, seed, x, y) ==
    LET cs == CoveringClones(lightmapDesc, x, y)
    IN  IF cs = {} \/ (x + y + seed) % 3 = 0
        THEN 0
        ELSE lightmapDesc.bakingScene_[CHOOSE c \in cs : \A d \in cs : c >= d].node_

RenderedNormal(seed, x, y) == ((x + 2 * y + seed) % 5) - 2
Sign(v) == IF v > 0 THEN 1 ELSE IF v < 0 THEN -1 ELSE 0

\* The frame the view renders: per texel, row-major, the marker and the attributes.
RenderFrame(lightmapDesc, seed) ==
    LET width == lightmapDesc.allocator_.width
        height == lightmapDesc.allocator_.height
    IN  [i \in 1..(width * height) |->
            LET x == (i - 1) % width
                y == (i - 1) \div width
            IN  [marker |-> RenderedMarker(lightmapDesc, seed, x, y),
                 position |-> x + y,
                 normal |-> RenderedNormal(seed, x, y)]]

\* The four extra render targets read back by ReadTextureRGBA32Float.
ReadTextureRGBA32Float(frame, name) ==
    [i \in 1..Len(frame) |->
        IF frame[i].marker = 0 THEN [x_ |-> 0, w_ |-> 0]
        ELSE CASE name = "position" -> [x_ |-> frame[i].position, w_ |-> frame[i].marker]
               [] name = "smoothposition" -> [x_ |-> frame[i].position, w_ |-> frame[i].marker]
               [] name = "facenormal" -> [x_ |-> Sign(frame[i].normal), w_ |-> 0]
               [] name = "smoothnormal" -> [x_ |-> frame[i].normal, w_ |-> 0]]

\* RenderLightmapGBuffer recording the index before the frame is begun.
RenderLightmapGBuffer_EarlyIndex(index, beginFrame, seed) ==
    /\ Idle
    /\ hasImpl
    /\ UNCHANGED <<sceneVars, staticModels, status, numInits, implVars, embreeVars, bakeVars>>
    /\ IF index >= GetNumLightmaps
       THEN /\ Returned("RenderLightmapGBuffer", index, "false")
            /\ UNCHANGED gbufferVars
       ELSE IF ~beginFrame
       THEN /\ Returned("RenderLightmapGBuffer", index, "false")
            /\ currentLightmapIndex_' = index
            /\ UNCHANGED <<positionBuffer_, smoothPositionBuffer_, faceNormalBuffer_, smoothNormalBuffer_>>
       ELSE \E frame \in {RenderFrame(lightmaps_[index + 1], seed)} :
                /\ currentLightmapIndex_' = index
                /\ positionBuffer_' = ReadTextureRGBA32Float(frame, "position")
                /\ smoothPositionBuffer_' = ReadTextureRGBA32Float(frame, "smoothposition")
                /\ faceNormalBuffer_' = ReadTextureRGBA32Float(frame, "facenormal")
                /\ smoothNormalBuffer_' = ReadTextureRGBA32Float(frame, "smoothnormal")
                /\ Returned("RenderLightmapGBuffer", index, "true")

RenderLightmapGBuffer(index, beginFrame, seed) ==
    /\ Idle
    /\ hasImpl
    /\ UNCHANGED <<sceneVars, staticModels, status, numInits, implVars, embreeVars, bakeVars>>
    /\ IF index >= GetNumLightmaps
       THEN /\ Returned("RenderLightmapGBuffer", index, "false")
            /\ UNCHANGED gbufferVars
       ELSE IF ~beginFrame
       THEN /\ Returned("RenderLightmapGBuffer", index, "false")
            /\ UNCHANGED gbufferVars
       ELSE \E frame \in {RenderFrame(lightmaps_[index + 1], seed)} :
                /\ currentLightmapIndex_' = index
                /\ positionBuffer_' = ReadTextureRGBA32Float(frame, "position")
                /\ smoothPositionBuffer_' = ReadTextureRGBA32Float(frame, "smoothposition")
                /\ faceNormalBuffer_' = ReadTextureRGBA32Float(frame, "facenormal")
                /\ smoothNormalBuffer_' = ReadTextureRGBA32Float(frame, "smoothnormal")
                /\ Returned("RenderLightmapGBuffer", index, "true")

\* --------------------------------------------------------------- BakeLightmap
Lanes == 0..(RayPacketSize - 1)

\* FirstDirectionalLight without the break: the last directional light wins.
RECURSIVE FirstDirectionalLight_NoBreak(_, _)
FirstDirectionalLight_NoBreak(lights, i) ==
    IF i > Len(lights) THEN 0
    ELSE LET rest == FirstDirectionalLight_NoBreak(lights, i + 1)
         IN  IF lights[i].light = "directional" /\ rest = 0
             THEN lights[i].direction
             ELSE rest

\* Lines 605-617: the direction of the first directional light, else the zero vector.
RECURSIVE FirstDirectionalLight(_, _)
FirstDirectionalLight(lights, i) ==
    IF i > Len(lights) THEN 0
    ELSE IF lights[i].light # "none" /\ lights[i].light = "directional"
    THEN lights[i].direction
    ELSE FirstDirectionalLight(lights, i + 1)

Normalized(v) == Sign(v)
DotProduct(a, b) == a * b

\* The ray tracing library: does some geometry of the scene (the nodes it was
\* built from) block the ray from origin?
RayHits(obstacles, origin, direction) == \E n \in obstacles : (origin + n) % 2 = 0

SceneGeometry(scene) == IF scene = 0 THEN {} ELSE embreeObjects[scene].attached

\* rtcIntersect16: lanes that are valid and hit get the id of the geometry hit;
\* every other lane is left as the caller set it.
rtcIntersect16(rayValid, obstacles, origins, direction, geomID) ==
    [i \in Lanes |-> IF rayValid[i] # 0 /\ RayHits(obstacles, origins[i], direction)
                     THEN 0 ELSE geomID[i]]

\* NewBandTask with the upper row bound one band too far.
NewBandTask_Overlap(parallelChunkIndex, chunkHeight, numRayPackets, lightmapWidth, lightmapHeight, rayDirection, garbage) ==
    [parallelChunkIndex |-> parallelChunkIndex,
     numRayPackets |-> numRayPackets,
     lightmapWidth |-> lightmapWidth,
     rayDirection |-> rayDirection,
     fromY |-> parallelChunkIndex * chunkHeight,
     toY |-> Min2((parallelChunkIndex + 2) * chunkHeight, lightmapHeight),
     y |-> parallelChunkIndex * chunkHeight,
     rayPacketIndex |-> 0,
     rayValid |-> [i \in Lanes |-> garbage],
     diffuseLight |-> [i \in Lanes |-> 2],
     geomID |-> [i \in Lanes |-> 0]]

\* The state a band task starts in: its captured values and its uninitialised arrays.
NewBandTask(parallelChunkIndex, chunkHeight, numRayPackets, lightmapWidth, lightmapHeight, rayDirection, garbage) ==
    [parallelChunkIndex |-> parallelChunkIndex,
     numRayPackets |-> numRayPackets,
     lightmapWidth |-> lightmapWidth,
     rayDirection |-> rayDirection,
     fromY |-> parallelChunkIndex * chunkHeight,
     toY |-> Min2((parallelChunkIndex + 1) * chunkHeight, lightmapHeight),
     y |-> parallelChunkIndex * chunkHeight,
     rayPacketIndex |-> 0,
     rayValid |-> [i \in Lanes |-> garbage],
     diffuseLight |-> [i \in Lanes |-> 2],
     geomID |-> [i \in Lanes |-> 0]]

TaskDone(task) == task.y >= task.toY

\* FillPacket leaving rayValid of an unoccupied lane as it was (line 648 missing).
FillPacket_StaleValid(task, position, smoothNormal) ==
    LET baseIndex == task.y * task.lightmapWidth + task.rayPacketIndex * RayPacketSize
        geometryId(i) == position[baseIndex + i + 1].w_
    IN  [baseIndex |-> baseIndex,
         rayValid |-> [i \in Lanes |-> IF geometryId(i) = 0 THEN task.rayValid[i] ELSE -1],
         diffuseLight |-> [i \in Lanes |->
             IF geometryId(i) = 0 THEN task.diffuseLight[i]
             ELSE Max2(0, DotProduct(smoothNormal[baseIndex + i + 1].x_, task.rayDirection))],
         origins |-> [i \in Lanes |-> position[baseIndex + i + 1].x_],
         geomID |-> [i \in Lanes |-> RTC_INVALID_GEOMETRY_ID],
         numValidRays |-> Cardinality({i \in Lanes : geometryId(i) # 0})]

\* Lines 637-678: the lanes of one packet are filled from the G-buffers.
FillPacket(task, position, smoothNormal) ==
    LET baseIndex == task.y * task.lightmapWidth + task.rayPacketIndex * RayPacketSize
        geometryId(i) == position[baseIndex + i + 1].w_
    IN  [baseIndex |-> baseIndex,
         rayValid |-> [i \in Lanes |-> IF geometryId(i) = 0 THEN 0 ELSE -1],
         diffuseLight |-> [i \in Lanes |->
             IF geometryId(i) = 0 THEN task.diffuseLight[i]
             ELSE Max2(0, DotProduct(smoothNormal[baseIndex + i + 1].x_, task.rayDirection))],
         origins |-> [i \in Lanes |-> position[baseIndex + i + 1].x_],
         geomID |-> [i \in Lanes |-> RTC_INVALID_GEOMETRY_ID],
         numValidRays |-> Cardinality({i \in Lanes : geometryId(i) # 0})]

\* Lines 687-695: the colour a lane writes, if it writes.
\* LaneWrites without the test of rayValid (line 689 missing).
LaneWrites_All(rayValid, i) == TRUE

LaneWrites(rayValid, i) == rayValid[i] # 0
LaneColor(diffuseLight, geomID, i) ==
    LET shadow == IF geomID[i] = RTC_INVALID_GEOMETRY_ID THEN 1 ELSE 0
    IN  ColorWHITE * diffuseLight[i] * shadow

\* The loop position after one packet.
Advance(task) ==
    IF task.rayPacketIndex + 1 < task.numRayPackets
    THEN [task EXCEPT !.rayPacketIndex = @ + 1]
    ELSE [task EXCEPT !.rayPacketIndex = 0, !.y = @ + 1]

\* BakeLightmapBegin sizing the output by the configured atlas size.
BakeLightmapBegin_ConfiguredSize(garbage, crash) ==
    /\ Idle
    /\ hasImpl
    /\ numBakes < MaxBakes
    /\ numBakes' = numBakes + 1
    /\ UNCHANGED <<sceneVars, staticModels, numInits, implVars, embreeVars, gbufferVars, bakeLog>>
    /\ IF currentLightmapIndex_ >= Len(lightmaps_)
       THEN \* lightmaps_[currentLightmapIndex_] reads outside the vector
            IF crash
            THEN /\ status' = "aborted"
                 /\ Returned("BakeLightmap", 0, "none")
                 /\ UNCHANGED <<data, tasks, writers>>
            ELSE /\ status' = status
                 /\ data' = EmptyData
                 /\ tasks' = <<>>
                 /\ writers' = <<>>
                 /\ Returned("BakeLightmap", 0, "undefined")
       ELSE LET lightmapDesc == lightmaps_[currentLightmapIndex_ + 1]
                lightmapWidth == lightmapDesc.allocator_.width
                lightmapHeight == lightmapDesc.allocator_.height
                lightDirection == FirstDirectionalLight(sceneLights, 1)
                rayDirection == -Normalized(lightDirection)
                numRayPackets == lightmapWidth \div RayPacketSize
                chunkHeight == lightmapHeight \div settings_.numParallelChunks_
            IN  /\ status' = status
                /\ data' = [lightmapSize_ |-> <<settings_.lightmapSize_, settings_.lightmapSize_>>,
                            backedLighting_ |-> [i \in 1..(settings_.lightmapSize_ * settings_.lightmapSize_) |-> ColorWHITE]]
                /\ writers' = [i \in 1..(lightmapWidth * lightmapHeight) |-> {}]
                /\ tasks' = [k \in 1..settings_.numParallelChunks_ |->
                                NewBandTask(k - 1, chunkHeight, numRayPackets, lightmapWidth,
                                            lightmapHeight, rayDirection, garbage)]
                /\ Returned("BakeLightmap", 0, "pending")

\* Lines 594-699: the output is sized and whitened, the band tasks are launched.
BakeLightmapBegin(garbage, crash) ==
    /\ Idle
    /\ hasImpl
    /\ numBakes < MaxBakes
    /\ numBakes' = numBakes + 1
    /\ UNCHANGED <<sceneVars, staticModels, numInits, implVars, embreeVars, gbufferVars, bakeLog>>
    /\ IF currentLightmapIndex_ >= Len(lightmaps_)
       THEN \* lightmaps_[currentLightmapIndex_] reads outside the vector
            IF crash
            THEN /\ status' = "aborted"
                 /\ Returned("BakeLightmap", 0, "none")
                 /\ UNCHANGED <<data, tasks, writers>>
            ELSE /\ status' = status
                 /\ data' = EmptyData
                 /\ tasks' = <<>>
                 /\ writers' = <<>>
                 /\ Returned("BakeLightmap", 0, "undefined")
       ELSE LET lightmapDesc == lightmaps_[currentLightmapIndex_ + 1]
                lightmapWidth == lightmapDesc.allocator_.width
                lightmapHeight == lightmapDesc.allocator_.height
                lightDirection == FirstDirectionalLight(sceneLights, 1)
                rayDirection == -Normalized(lightDirection)
                numRayPackets == lightmapWidth \div RayPacketSize
                chunkHeight == lightmapHeight \div settings_.numParallelChunks_
            IN  /\ status' = status
                /\ data' = [lightmapSize_ |-> <<lightmapWidth, lightmapHeight>>,
                            backedLighting_ |-> [i \in 1..(lightmapWidth * lightmapHeight) |-> ColorWHITE]]
                /\ writers' = [i \in 1..(lightmapWidth * lightmapHeight) |-> {}]
                /\ tasks' = [k \in 1..settings_.numParallelChunks_ |->
                                NewBandTask(k - 1, chunkHeight, numRayPackets, lightmapWidth,
                                            lightmapHeight, rayDirection, garbage)]
                /\ Returned("BakeLightmap", 0, "pending")

\* One packet of one band task (one iteration of the loop at line 635).
BandTaskStep(k) ==
    /\ status = "ready"
    /\ k \in 1..Len(tasks)
    /\ ~TaskDone(tasks[k])
    /\ UNCHANGED <<sceneVars, staticModels, numInits, implVars, embreeVars, gbufferVars, bakeLog,
                   numBakes, lastCall>>
    /\ \E f \in {FillPacket(tasks[k], positionBuffer_, smoothNormalBuffer_)} :
       \E hit \in {rtcIntersect16(f.rayValid, SceneGeometry(embreeScene_), f.origins, tasks[k].rayDirection, f.geomID)} :
           LET local(g) == [Advance(tasks[k]) EXCEPT !.rayValid = f.rayValid,
                                                     !.diffuseLight = f.diffuseLight, !.geomID = g]
           IN  IF f.numValidRays = 0
               THEN /\ tasks' = [tasks EXCEPT ![k] = local(f.geomID)]
                    /\ UNCHANGED <<data, writers, status>>
               ELSE IF embreeScene_ = 0
               THEN \* rtcIntersect16 on a null scene handle
                    /\ status' = "aborted"
                    /\ UNCHANGED <<data, tasks, writers>>
               ELSE /\ tasks' = [tasks EXCEPT ![k] = local(hit)]
                    /\ status' = status
                    /\ data' = [data EXCEPT !.backedLighting_ =
                           [j \in 1..Len(@) |->
                               IF /\ j - 1 - f.baseIndex \in Lanes
                                  /\ LaneWrites(f.rayValid, j - 1 - f.baseIndex)
                               THEN LaneColor(f.diffuseLight, hit, j - 1 - f.baseIndex)
                               ELSE @[j]]]
                    /\ writers' = [j \in 1..Len(writers) |->
                           IF /\ j - 1 - f.baseIndex \in Lanes
                              /\ LaneWrites(f.rayValid, j - 1 - f.baseIndex)
                           THEN writers[j] \cup {k}
                           ELSE writers[j]]

\* Lines 701-705: every task has been waited for; the call returns true.
BakeInputs ==
    [currentLightmapIndex_ |-> currentLightmapIndex_, positionBuffer_ |-> positionBuffer_,
     smoothNormalBuffer_ |-> smoothNormalBuffer_, embreeScene_ |-> embreeScene_,
     settings_ |-> settings_]

\* BakeLightmapEnd returning as soon as one task has finished.
BakeLightmapEnd_NoWait ==
    /\ status = "ready"
    /\ tasks # <<>>
    /\ \E k \in 1..Len(tasks) : TaskDone(tasks[k])
    /\ tasks' = <<>>
    /\ lastCall' = [lastCall EXCEPT !.ret = "true"]
    /\ bakeLog' = (IF bakeLog = <<>> THEN <<>> ELSE <<bakeLog[Len(bakeLog)]>>)
                      \o <<[inputs |-> BakeInputs, data |-> data]>>
    /\ UNCHANGED <<sceneVars, staticModels, status, numInits, implVars, embreeVars, gbufferVars,
                   data, writers, numBakes>>

BakeLightmapEnd ==
    /\ status = "ready"
    /\ tasks # <<>>
    /\ \A k \in 1..Len(tasks) : TaskDone(tasks[k])
    /\ tasks' = <<>>
    /\ lastCall' = [lastCall EXCEPT !.ret = "true"]
    /\ bakeLog' = (IF bakeLog = <<>> THEN <<>> ELSE <<bakeLog[Len(bakeLog)]>>)
                      \o <<[inputs |-> BakeInputs, data |-> data]>>
    /\ UNCHANGED <<sceneVars, staticModels, status, numInits, implVars, embreeVars, gbufferVars,
                   data, writers, numBakes>>

\* ~LightmapBaker (lines 459-461): impl_ is destroyed with the baker.
LightmapBakerDestructor ==
    /\ Idle
    /\ status' = "destroyed"
    /\ hasImpl' = FALSE
    /\ embreeObjects' = (IF hasImpl
                         THEN LightmapBakerImplDestructor(embreeObjects, embreeDevice_, embreeScene_)
                         ELSE embreeObjects)
    /\ embreeDevice_' = 0
    /\ embreeScene_' = 0
    /\ UNCHANGED <<sceneVars, staticModels, numInits, settings_, lightReceivers_, lightmaps_, indexedMaps,
                   allocLog, lastCall,
                   numCooks, cook, gbufferVars, bakeVars>>

\* A public method other than Initialize called before any Initialize
\* dereferences the null impl_.
CallWithoutImpl ==
    /\ Idle
    /\ ~hasImpl
    /\ status' = "aborted"
    /\ Returned("null impl_", 0, "none")
    /\ UNCHANGED <<sceneVars, staticModels, numInits, implVars, embreeVars, gbufferVars, bakeVars>>

Next ==
    \/ \E s \in SettingsSet, g \in GarbageChoices, c \in CrashChoices : Initialize(s, g, c)
    \/ CookRaytracingScene
    \/ CookSteps
    \/ LightmapBakerDestructor
    \/ \E i \in 0..Len(lightmaps_), b \in BOOLEAN, seed \in RenderSeeds : RenderLightmapGBuffer(i, b, seed)
    \/ \E g \in {0, -1}, c \in BOOLEAN : BakeLightmapBegin(g, c)
    \/ \E k \in 1..Len(tasks) : BandTaskStep(k)
    \/ BakeLightmapEnd
    \/ \E b \in BaseIndices : ApplyLightmapsToScene(b)
    \/ CallWithoutImpl

Spec == Init /\ [][Next]_vars

\* Region allocation and result binding: every scene, every setting, the
\* baker initialised once.
AllocInit == InitWith(BOOLEAN, Scenes, {<<>>}, {<<>>})

AllocSettings ==
    {[lightmapSize_ |-> 16, numParallelChunks_ |-> c, lightmapPadding_ |-> p] :
        c \in {1, 3}, p \in Paddings}
    \cup {[lightmapSize_ |-> 24, numParallelChunks_ |-> 1, lightmapPadding_ |-> 0]}

AllocNext ==
    \/ \E s \in AllocSettings, g \in GarbageChoices, c \in CrashChoices :
          numInits = 0 /\ Initialize(s, g, c)
    \/ \E b \in BaseIndices : ApplyLightmapsToScene(b)
    \/ CallWithoutImpl

AllocSpec == AllocInit /\ [][AllocNext]_vars

\* One bake session: Initialize once, cook once, capture and bake.  The scene
\* has one receiver in a dedicated map (16 x 17) and one in a shared map.
BakeScenes ==
    {<<[model |-> TRUE, size |-> <<4, 17>>], [model |-> TRUE, size |-> <<4, 4>>]>>}

BakeSettings ==
    {[lightmapSize_ |-> l, numParallelChunks_ |-> c, lightmapPadding_ |-> 0] :
        l \in LightmapSizes, c \in ChunkCounts}

BakeInit == InitWith({FALSE}, BakeScenes, {<<Obstacle(1)>>}, {<<LightDirectional(2)>>})

BakeNext ==
    \/ \E s \in BakeSettings : numInits = 0 /\ Initialize(s, 0, FALSE)
    \/ numCooks = 0 /\ CookRaytracingScene
    \/ CookSteps
    \/ \E i \in 0..Len(lightmaps_), b \in BOOLEAN, seed \in RenderSeeds : RenderLightmapGBuffer(i, b, seed)
    \/ \E g \in {0, -1}, c \in BOOLEAN : BakeLightmapBegin(g, c)
    \/ \E k \in 1..Len(tasks) : BandTaskStep(k)
    \/ BakeLightmapEnd
    \/ CallWithoutImpl

BakeSpec == BakeInit /\ [][BakeNext]_vars

\* One bake session for each light list: both band counts, the capture of
\* either map, up to MaxBakes bakes.
LightSettings ==
    {[lightmapSize_ |-> 16, numParallelChunks_ |-> c, lightmapPadding_ |-> 0] : c \in {1, 2}}

LightInit == InitWith({FALSE}, BakeScenes, {<<Obstacle(1)>>}, LightLists)

LightNext ==
    \/ \E s \in LightSettings : numInits = 0 /\ Initialize(s, 0, FALSE)
    \/ numCooks = 0 /\ CookRaytracingScene
    \/ CookSteps
    \/ \E i \in 0..Len(lightmaps_), b \in BOOLEAN : RenderLightmapGBuffer(i, b, 1)
    \/ \E c \in BOOLEAN : BakeLightmapBegin(-1, c)
    \/ \E k \in 1..Len(tasks) : BandTaskStep(k)
    \/ BakeLightmapEnd
    \/ CallWithoutImpl

LightSpec == LightInit /\ [][LightNext]_vars

\* Sessions of the ray tracing scene: the baker initialised up to MaxInits
\* times, cooked up to MaxCooks times, destroyed at any point between calls.
CookScenes == {<<>>, <<[model |-> TRUE, size |-> <<4, 4>>]>>}

CookSettings ==
    {[lightmapSize_ |-> l, numParallelChunks_ |-> 1, lightmapPadding_ |-> 0] : l \in LightmapSizes}

CookInit == InitWith({FALSE}, CookScenes, ObstacleLists, {<<>>})

CookNext ==
    \/ \E s \in CookSettings : Initialize(s, 0, FALSE)
    \/ CookRaytracingScene
    \/ CookSteps
    \/ LightmapBakerDestructor
    \/ CallWithoutImpl

CookSpec == CookInit /\ [][CookNext]_vars

\* One bake session over an atlas two ray packets wide: a receiver 17 x 4 in a
\* dedicated map (32 x 4) and one in a shared map.
PacketScenes ==
    {<<[model |-> TRUE, size |-> <<17, 4>>], [model |-> TRUE, size |-> <<4, 4>>]>>}

PacketInit == InitWith({FALSE}, PacketScenes, {<<Obstacle(1)>>}, {<<LightDirectional(2)>>})

PacketNext ==
    \/ \E s \in LightSettings : numInits = 0 /\ Initialize(s, 0, FALSE)
    \/ numCooks = 0 /\ CookRaytracingScene
    \/ CookSteps
    \/ \E i \in 0..Len(lightmaps_), b \in BOOLEAN : RenderLightmapGBuffer(i, b, 1)
    \/ \E c \in BOOLEAN : BakeLightmapBegin(-1, c)
    \/ \E k \in 1..Len(tasks) : BandTaskStep(k)
    \/ BakeLightmapEnd
    \/ CallWithoutImpl

PacketSpec == PacketInit /\ [][PacketNext]_vars

TypeOK == status \in {"ready", "aborted", "destroyed"}

\* ===================================================================== claims
Receivers == 1..Len(lightReceivers_)
HasRegion(i) == lightReceivers_[i].staticModel_
RegionOf(i) == lightReceivers_[i].region_
SizeOf(i) == sceneNodes[lightReceivers_[i].node_].size
SettingsValid ==
    /\ settings_.lightmapSize_ % settings_.numParallelChunks_ = 0
    /\ settings_.lightmapSize_ % RayPacketSize = 0
InitializeSucceeded == hasImpl /\ status = "ready" /\ SettingsValid

\* C1: Initialize with a lightmapSize not divisible by numParallelChunks or by
\* the ray packet width returns failure, and afterwards no atlas exists and no
\* receiver has been given a region.
C1_InvalidSettingsAllocateNothing ==
    (hasImpl /\ ~SettingsValid) =>
        /\ lastCall.op = "Initialize" => lastCall.ret = "false"
        /\ GetNumLightmaps = 0
        /\ \A i \in Receivers :
              ~HasRegion(i) /\ RegionOf(i).lightmapTexelRect_ = IntRectZERO

C1_Witness ==
    /\ lastCall.op = "Initialize" /\ lastCall.ret = "false"
    /\ GetNumLightmaps = 0
    /\ settings_.lightmapSize_ % settings_.numParallelChunks_ = 0
    /\ settings_.lightmapSize_ % RayPacketSize # 0
    /\ \E n \in 1..Len(sceneNodes) : sceneNodes[n].model

\* C3: after region allocation, two distinct receivers assigned to the same
\* atlas have non-overlapping texel rectangles.
C3_RegionsDisjoint ==
    InitializeSucceeded =>
        \A i, j \in Receivers :
            (i # j /\ HasRegion(i) /\ HasRegion(j)
                /\ RegionOf(i).lightmapIndex_ = RegionOf(j).lightmapIndex_)
            => ~RectsOverlap(RegionOf(i).lightmapTexelRect_, RegionOf(j).lightmapTexelRect_)

\* C4: a receiver whose padded size exceeds the atlas size in either dimension
\* gets a private atlas: width rounded up to a multiple of the ray packet
\* width, height the object's height, the region at the origin, no other
\* receiver in it.
PaddedOversize(i) ==
    \/ SizeOf(i)[1] + 2 * settings_.lightmapPadding_ > settings_.lightmapSize_
    \/ SizeOf(i)[2] + 2 * settings_.lightmapPadding_ > settings_.lightmapSize_

RoundUpToPacket(n) == ((n + RayPacketSize - 1) \div RayPacketSize) * RayPacketSize

C4_PaddedOversizeGetsPrivateAtlas ==
    InitializeSucceeded =>
        \A i \in Receivers :
            (HasRegion(i) /\ PaddedOversize(i)) =>
                /\ RegionOf(i).lightmapIndex_ < Len(lightmaps_)
                /\ LET al == lightmaps_[RegionOf(i).lightmapIndex_ + 1].allocator_
                   IN  /\ al.width = RoundUpToPacket(SizeOf(i)[1])
                       /\ al.height = SizeOf(i)[2]
                /\ RegionOf(i).lightmapTexelRect_.left_ = 0
                /\ RegionOf(i).lightmapTexelRect_.top_ = 0
                /\ \A j \in Receivers :
                      (j # i /\ HasRegion(j)) => RegionOf(j).lightmapIndex_ # RegionOf(i).lightmapIndex_

\* C5: both corners of the UV rectangle of every allocated region lie in [0,1].
C5_UVWithinUnit ==
    InitializeSucceeded =>
        \A i \in Receivers :
            HasRegion(i) =>
                \A k \in 1..2 :
                    /\ FracInUnit(RegionOf(i).lightmapUVRect_.min_[k])
                    /\ FracInUnit(RegionOf(i).lightmapUVRect_.max_[k])

\* C10: after ApplyLightmapsToScene(base) every receiver with a region has the
\* lightmap enabled, index base + atlas index (unsigned), and scale/offset
\* (UV size, UV min) of its region, the value given to its clone in the baking
\* scene.
RegionScaleOffset(i) ==
    LET t == RegionOf(i).lightmapTexelRect_
        l == settings_.lightmapSize_
    IN  <<Frac(t.right_ - t.left_, l), Frac(t.bottom_ - t.top_, l), Frac(t.left_, l), Frac(t.top_, l)>>

CloneOf(i) ==
    LET scene == lightmaps_[RegionOf(i).lightmapIndex_ + 1].bakingScene_
    IN  {scene[c].LMOffset : c \in {d \in 1..Len(scene) : scene[d].node_ = lightReceivers_[i].node_}}

C10_BoundAsAllocated ==
    (lastCall.op = "ApplyLightmapsToScene" /\ status = "ready") =>
        \A i \in Receivers :
            HasRegion(i) =>
                LET sm == staticModels[lightReceivers_[i].node_]
                IN  /\ sm.lightmap_
                    /\ sm.lightmapIndex_ = (lastCall.arg + RegionOf(i).lightmapIndex_) % (2 ^ UnsignedBits)
                    /\ sm.lightmapScaleOffset_ = RegionScaleOffset(i)
                    /\ CloneOf(i) = {sm.lightmapScaleOffset_}

C10_Witness ==
    /\ lastCall.op = "ApplyLightmapsToScene" /\ lastCall.arg = 3
    /\ \E i \in Receivers :
          /\ HasRegion(i) /\ RegionOf(i).lightmapIndex_ = 1
          /\ staticModels[lightReceivers_[i].node_].lightmapIndex_ = 4
          /\ RegionOf(i).lightmapTexelRect_.left_ > 0

\* C11: ApplyLightmapsToScene leaves the lightmap flag, index and scale/offset
\* of every receiver without a region as they were, and it always returns.
C11_NoRegionUntouched ==
    [][lastCall'.op = "ApplyLightmapsToScene" =>
          /\ status' = "ready"
          /\ \A i \in Receivers :
                ~HasRegion(i) =>
                    staticModels'[lightReceivers_[i].node_] = staticModels[lightReceivers_[i].node_]]_vars

\* A binding with base 3 over a receiver with a region, now bound, and one
\* without.
C11_Witness ==
    /\ lastCall.op = "ApplyLightmapsToScene" /\ lastCall.arg = 3
    /\ \E i \in Receivers : ~HasRegion(i) /\ ~staticModels[lightReceivers_[i].node_].lightmap_
    /\ \E j \in Receivers : HasRegion(j) /\ staticModels[lightReceivers_[j].node_].lightmap_

\* ---------------------------------------------------------------- ray casting
PrecededBySuccessfulRender == lastCall.afterRender

\* C2: BakeLightmap reports failure whenever the call before it is not a
\* successful RenderLightmapGBuffer.
C2_BakeRejectedWithoutRender ==
    (lastCall.op = "BakeLightmap" /\ lastCall.ret \in {"true", "false"} /\ ~PrecededBySuccessfulRender)
        => lastCall.ret = "false"

\* C6: a RenderLightmapGBuffer call that returns failure leaves the current
\* atlas index and the four G-buffer working buffers as they were.
C6_FailedRenderWritesNothing ==
    [][(lastCall'.op = "RenderLightmapGBuffer" /\ lastCall'.ret = "false")
          => UNCHANGED gbufferVars]_vars

C6_Witness ==
    /\ lastCall.op = "RenderLightmapGBuffer" /\ lastCall.ret = "false"
    /\ lastCall.arg < GetNumLightmaps
    /\ lastCall.arg # currentLightmapIndex_
    /\ lastCall.afterRender
    /\ \E j \in 1..Len(positionBuffer_) : positionBuffer_[j].w_ # 0

\* The bakes whose output can be looked at: the completed ones, with the
\* G-buffers they read, and the running one.
Bakes ==
    {bakeLog[b] : b \in 1..Len(bakeLog)}
    \cup (IF tasks # <<>> THEN {[inputs |-> BakeInputs, data |-> data]} ELSE {})

Texels(bake) == 1..Len(bake.data.backedLighting_)
Occupied(bake, j) == bake.inputs.positionBuffer_[j].w_ # 0

\* C7: in the output of BakeLightmap every texel whose position marker is zero
\* holds the default white value.
C7_UnoccupiedStayWhite ==
    \A bake \in Bakes :
        \A j \in Texels(bake) :
            ~Occupied(bake, j) => bake.data.backedLighting_[j] = ColorWHITE

\* A completed bake with a packet that mixes occupied and unoccupied lanes, the
\* occupied one written.
C7_Witness ==
    \E b \in 1..Len(bakeLog) :
        \E j \in Texels(bakeLog[b]) :
            /\ (j - 1) % RayPacketSize < RayPacketSize - 1
            /\ ~Occupied(bakeLog[b], j)
            /\ Occupied(bakeLog[b], j + 1)
            /\ bakeLog[b].data.backedLighting_[j + 1] # ColorWHITE

\* C8: in the output of BakeLightmap every occupied texel equals
\* white x diffuse x shadow, diffuse its own diffuse term, shadow 1 when its
\* ray hits nothing and 0 when it hits geometry.
ExpectedColor(bake, j) ==
    LET rayDirection == -Sign(FirstDirectionalLight(sceneLights, 1))
        diffuse == Max2(0, bake.inputs.smoothNormalBuffer_[j].x_ * rayDirection)
        shadow == IF RayHits(ObstaclesWithModel, bake.inputs.positionBuffer_[j].x_, rayDirection)
                  THEN 0 ELSE 1
    IN  ColorWHITE * diffuse * shadow

C8_OccupiedLit ==
    \A b \in 1..Len(bakeLog) :
        \A j \in Texels(bakeLog[b]) :
            Occupied(bakeLog[b], j)
                => bakeLog[b].data.backedLighting_[j] = ExpectedColor(bakeLog[b], j)

\* C9: two BakeLightmap calls on the same G-buffers, scene and settings return
\* the same data, however the band tasks interleave, and a BakeLightmap call
\* changes neither the G-buffers nor the current atlas index.
C9_BakeDeterministic ==
    /\ [](\A a, b \in 1..Len(bakeLog) :
              bakeLog[a].inputs = bakeLog[b].inputs => bakeLog[a].data = bakeLog[b].data)
    /\ [][(lastCall'.op = "BakeLightmap" /\ status' = "ready") => UNCHANGED gbufferVars]_vars

C9_Witness ==
    /\ Len(bakeLog) = 2
    /\ bakeLog[1].inputs = bakeLog[2].inputs
    /\ settings_.numParallelChunks_ = 2
    /\ \E j \in Texels(bakeLog[2]) : bakeLog[2].data.backedLighting_[j] # ColorWHITE
    /\ \E j \in Texels(bakeLog[2]) :
          Occupied(bakeLog[2], j) /\ bakeLog[2].data.backedLighting_[j] = ColorWHITE

\* ------------------------------------------------------------------- bands
BandOf(k) == [fromY |-> tasks[k].fromY, toY |-> tasks[k].toY]
BakeReturned == lastCall.op = "BakeLightmap" /\ lastCall.ret = "true"

\* C12: the bands of a BakeLightmap call partition the rows of the atlas (each
\* row in exactly one band), and when the call has returned every occupied
\* texel of every row has been ray-cast.
C12_BandsPartitionHeight ==
    /\ tasks # <<>> =>
          \A y \in 0..(data.lightmapSize_[2] - 1) :
              Cardinality({k \in 1..Len(tasks) : BandOf(k).fromY <= y /\ y < BandOf(k).toY}) = 1
    /\ BakeReturned =>
          \A j \in 1..Len(writers) : positionBuffer_[j].w_ # 0 => writers[j] # {}

\* C13: BakeLightmap returns only when every band task has run to its last
\* row; once it has returned no band task exists and the data returned is the
\* output buffer with every band's writes.
C13_ReturnsAfterJoin ==
    /\ [](BakeReturned => (tasks = <<>> /\ bakeLog[Len(bakeLog)].data = data))
    /\ [][(lastCall.ret = "pending" /\ lastCall'.ret = "true")
              => \A k \in 1..Len(tasks) : TaskDone(tasks[k])]_vars

\* A returned two-band bake in which each band has written texels.
C13_Witness ==
    /\ BakeReturned
    /\ settings_.numParallelChunks_ = 2
    /\ \E j \in 1..Len(writers) : writers[j] = {1}
    /\ \E j \in 1..Len(writers) : writers[j] = {2}

\* C20: no output texel is written by two band tasks, and band task k writes
\* only texels of rows [k * chunkHeight, (k + 1) * chunkHeight).
C20_BandsWriteDisjointRows ==
    \A j \in 1..Len(writers) :
        /\ Cardinality(writers[j]) <= 1
        /\ \A k \in writers[j] :
              LET row == (j - 1) \div data.lightmapSize_[1]
                  chunkHeight == data.lightmapSize_[2] \div settings_.numParallelChunks_
              IN  (k - 1) * chunkHeight <= row /\ row < k * chunkHeight

\* Two band tasks both under way, each having written.
C20_Witness ==
    /\ Len(tasks) = 2
    /\ ~TaskDone(tasks[1]) /\ ~TaskDone(tasks[2])
    /\ \E j \in 1..Len(writers) : writers[j] = {1}
    /\ \E j \in 1..Len(writers) : writers[j] = {2}

\* ------------------------------------------------------------------ lights
IsDirectional(i) == sceneLights[i].light = "directional"
DirectionalLights == {i \in 1..Len(sceneLights) : IsDirectional(i)}

\* C14: with no directional light in the list a BakeLightmap call succeeds and
\* leaves every occupied texel black and every unoccupied texel white.
C14_NoDirectionalLightAllBlack ==
    DirectionalLights = {} =>
        \A b \in 1..Len(bakeLog) :
            \A j \in Texels(bakeLog[b]) :
                bakeLog[b].data.backedLighting_[j] = (IF Occupied(bakeLog[b], j) THEN 0 ELSE ColorWHITE)

\* C15: every band task of a BakeLightmap call casts along the direction of
\* the first directional light of the list, whatever precedes or follows it,
\* and every texel it writes is lit by that direction.
C15_FirstDirectionalLightWins ==
    DirectionalLights # {} =>
        LET first == CHOOSE i \in DirectionalLights : \A j \in DirectionalLights : i <= j
            rayDirection == -Sign(sceneLights[first].direction)
        IN  /\ \A k \in 1..Len(tasks) : tasks[k].rayDirection = rayDirection
            /\ \A j \in 1..Len(writers) :
                  (lastCall.op = "BakeLightmap" /\ writers[j] # {}) =>
                      data.backedLighting_[j] \in
                          {0, ColorWHITE * Max2(0, smoothNormalBuffer_[j].x_ * rayDirection)}

\* A returned bake under a list whose first directional light is preceded by
\* other nodes and followed by a directional light of the opposite direction,
\* with a texel lit.
C15_Witness ==
    /\ BakeReturned
    /\ Len(sceneLights) = 4
    /\ \E j \in 1..Len(writers) : writers[j] # {} /\ data.backedLighting_[j] # 0

\* ----------------------------------------------------------- map selection
Accepts(allocator, i) ==
    AreaAllocatorFree(allocator, SizeOf(i)[1] + 2 * settings_.lightmapPadding_,
                      SizeOf(i)[2] + 2 * settings_.lightmapPadding_) # {}

SharedMap(i) ==
    /\ RegionOf(i).lightmapIndex_ < Len(lightmaps_)
    /\ lightmaps_[RegionOf(i).lightmapIndex_ + 1].allocator_.width = settings_.lightmapSize_
    /\ lightmaps_[RegionOf(i).lightmapIndex_ + 1].allocator_.height = settings_.lightmapSize_

Grow(rect, by) ==
    [left_ |-> rect.left_ - by, top_ |-> rect.top_ - by,
     right_ |-> rect.right_ + by, bottom_ |-> rect.bottom_ + by]

\* C19: the texel region of a receiver in a full-size map is its padded
\* allocation shrunk by the padding on every side, lies inside the map, and
\* is at least 2 x padding texels away from the region of any other receiver
\* of that map.
C19_SharedRegionInsideAndSeparated ==
    InitializeSucceeded =>
        \A i \in Receivers :
            (HasRegion(i) /\ SharedMap(i)) =>
                LET al == lightmaps_[RegionOf(i).lightmapIndex_ + 1].allocator_
                    rect == RegionOf(i).lightmapTexelRect_
                    padding == settings_.lightmapPadding_
                IN  /\ \E r \in 1..Len(al.rects) : al.rects[r] = Grow(rect, padding)
                    /\ rect.right_ - rect.left_ = SizeOf(i)[1]
                    /\ rect.bottom_ - rect.top_ = SizeOf(i)[2]
                    /\ 0 <= rect.left_ /\ rect.right_ <= al.width
                    /\ 0 <= rect.top_ /\ rect.bottom_ <= al.height
                    /\ \A j \in Receivers :
                          (j # i /\ HasRegion(j) /\ RegionOf(j).lightmapIndex_ = RegionOf(i).lightmapIndex_)
                          => ~RectsOverlap(Grow(rect, padding), Grow(RegionOf(j).lightmapTexelRect_, padding))

\* ------------------------------------------------------- ray tracing scene
EmbreeHandles == 1..Len(embreeObjects)
ImportsJoined == \A t \in 1..Len(cook.models) : cook.models[t].state = "joined"
GeometriesJoined ==
    /\ Len(cook.geometries) = Len(cook.models)
    /\ \A t \in 1..Len(cook.geometries) : cook.geometries[t].state = "joined"
WorkerStep ==
    \/ \E t \in 1..Len(cook.models) :
          cook.models[t].state = "running" /\ cook'.pc = cook.pc /\ cook'.models[t].state = "done"
    \/ \E t \in 1..Len(cook.geometries) :
          cook.geometries[t].state = "running" /\ cook'.pc = cook.pc /\ cook'.geometries[t].state = "done"

\* C16: a scene is committed at most once, a finished CookRaytracingScene has
\* committed its scene once with the geometry of every obstacle that has a
\* model; the commit comes after every import task and every geometry task
\* has been joined and every geometry attached; a worker task changes neither
\* the model cache nor the scene.
C16_CommitOnceAfterJoins ==
    /\ [](\A h \in EmbreeHandles : embreeObjects[h].commits <= 1)
    /\ []((cook.pc = "idle" /\ embreeScene_ # 0) =>
              /\ embreeObjects[embreeScene_].commits = 1
              /\ embreeObjects[embreeScene_].attached = ObstaclesWithModel)
    /\ [][\A h \in EmbreeHandles :
              embreeObjects'[h].commits # embreeObjects[h].commits =>
                  /\ ImportsJoined
                  /\ GeometriesJoined
                  /\ embreeObjects[h].attached = ObstaclesWithModel]_vars
    /\ [][WorkerStep =>
              /\ cook'.parsedModelCache = cook.parsedModelCache
              /\ embreeObjects' = embreeObjects]_vars

\* A finished cook over two obstacle nodes with a model and one without.
C16_Witness ==
    /\ lastCall.op = "CookRaytracingScene" /\ lastCall.ret = "void"
    /\ Len(sceneObstacles) = 3
    /\ embreeObjects[embreeScene_].commits = 1
    /\ Cardinality(embreeObjects[embreeScene_].attached) = 2

\* C17: a device or scene is live exactly while the impl holds its handle;
\* every other one that was created has been released exactly once.
C17_EmbreeObjectsReleasedOnce ==
    \A h \in EmbreeHandles :
        embreeObjects[h].releases =
            (IF hasImpl /\ h \in {embreeDevice_, embreeScene_} THEN 0 ELSE 1)

\* ------------------------------------------------------- capture and bake
\* C21: the G-buffers and the current atlas index change only while no band
\* task exists: a render (or anything else that writes the buffers) begins
\* only after the BakeLightmap before it has joined every band task, and while
\* band tasks run the buffers stay as they were.
C21_NoRenderDuringBake ==
    /\ [][gbufferVars' # gbufferVars => tasks = <<>>]_vars
    /\ [][(lastCall'.op = "RenderLightmapGBuffer" /\ lastCall.op = "BakeLightmap" /\ status = "ready")
              => lastCall.ret # "pending"]_vars

\* The capture of one atlas right after a completed bake of the other.
C21_Witness ==
    /\ lastCall.op = "RenderLightmapGBuffer" /\ lastCall.ret = "true"
    /\ bakeLog # <<>>
    /\ bakeLog[Len(bakeLog)].inputs.currentLightmapIndex_ # currentLightmapIndex_
    /\ bakeLog[Len(bakeLog)].inputs.positionBuffer_ # positionBuffer_
    /\ \E j \in 1..Len(bakeLog[Len(bakeLog)].data.backedLighting_) :
          bakeLog[Len(bakeLog)].data.backedLighting_[j] # ColorWHITE

DedicatedReceivers(m) ==
    {i \in Receivers :
        HasRegion(i) /\ RegionOf(i).lightmapIndex_ = m /\ NeedsDedicatedMap(settings_, SizeOf(i))}

ExpectedMapSize(m) ==
    IF DedicatedReceivers(m) = {}
    THEN <<settings_.lightmapSize_, settings_.lightmapSize_>>
    ELSE LET i == CHOOSE r \in DedicatedReceivers(m) : TRUE
         IN  <<RoundUpToPacket(SizeOf(i)[1]), SizeOf(i)[2]>>

BakeRunningOrReturned ==
    lastCall.op = "BakeLightmap" /\ lastCall.ret \in {"pending", "true"} /\ status = "ready"

\* C22: the current atlas index is the index of the last successful render;
\* the data of a BakeLightmap call has the width and height of that atlas (the
\* configured size for a shared atlas, the receiver's own size with the width
\* rounded up to the ray packet width for a dedicated one) and width x height
\* texels, all white when the band tasks start, and white wherever no band
\* task has written.
C22_DataOfCurrentAtlas ==
    /\ [](BakeRunningOrReturned =>
              /\ data.lightmapSize_ = ExpectedMapSize(currentLightmapIndex_)
              /\ Len(data.backedLighting_) = data.lightmapSize_[1] * data.lightmapSize_[2]
              /\ \A j \in 1..Len(data.backedLighting_) :
                    writers[j] = {} => data.backedLighting_[j] = ColorWHITE)
    /\ [][(lastCall'.op = "BakeLightmap" /\ lastCall'.ret = "pending" /\ lastCall' # lastCall) =>
              \A j \in 1..Len(data'.backedLighting_) : data'.backedLighting_[j] = ColorWHITE]_vars
    /\ [][currentLightmapIndex_' # currentLightmapIndex_ =>
              \/ lastCall'.op = "Initialize"
              \/ /\ lastCall'.op = "RenderLightmapGBuffer" /\ lastCall'.ret = "true"
                 /\ lastCall'.arg = currentLightmapIndex_']_vars

\* A second bake, of the dedicated 16 x 17 atlas, begun over the data that the
\* bake of the shared atlas left, some of it not white.
C22_Witness ==
    /\ lastCall.op = "BakeLightmap" /\ lastCall.ret = "pending"
    /\ bakeLog # <<>>
    /\ bakeLog[Len(bakeLog)].data.lightmapSize_ = <<16, 16>>
    /\ \E j \in 1..Len(bakeLog[Len(bakeLog)].data.backedLighting_) :
          bakeLog[Len(bakeLog)].data.backedLighting_[j] # ColorWHITE
    /\ data.lightmapSize_ = <<16, 17>>
    /\ \A k \in 1..Len(tasks) : tasks[k].y = tasks[k].fromY /\ tasks[k].rayPacketIndex = 0

\* ------------------------------------------------------------ model imports
DistinctModels == {sceneObstacles[n].model : n \in ObstaclesWithModel}
ImportTasksOf(m) == {t \in 1..Len(cook.models) : cook.models[t].model_ = m}

\* C23: in CookRaytracingScene each distinct model is imported by one task
\* only, however many obstacle nodes use it; once the imports are joined the
\* cache has exactly one entry per distinct model, so the lookup made for
\* every obstacle node with a model finds an entry.
C23_OneImportPerAsset ==
    /\ \A m \in DistinctModels : Cardinality(ImportTasksOf(m)) <= 1
    /\ cook.pc = "geometries" =>
          /\ cook.parsedModelCache = DistinctModels
          /\ \A t \in 1..Len(cook.geometries) :
                sceneObstacles[cook.geometries[t].node_].model \in cook.parsedModelCache

\* -------------------------------------------------------- scene geometries
AttachedGeometries == embreeObjects[embreeScene_].geometries
GeometryIndices(n) == 0..(Len(ModelView(sceneObstacles[n].model)) - 1)
Insertions(n, g, l) ==
    {k \in 1..Len(AttachedGeometries) :
        AttachedGeometries[k] = [node_ |-> n, geometryIndex_ |-> g, geometryLOD_ |-> l]}
LodsInserted(n, g) ==
    {AttachedGeometries[k].geometryLOD_ :
        k \in {i \in 1..Len(AttachedGeometries) :
                  AttachedGeometries[i].node_ = n /\ AttachedGeometries[i].geometryIndex_ = g}}

\* C24: in the scene of a finished CookRaytracingScene every geometry index
\* of every obstacle node with a model has exactly one LOD level inserted,
\* once, under the key (node, geometry index, LOD index); no further LOD level
\* of that geometry is inserted, and a node without a model has no geometry
\* in the scene.
C24_OneLodPerGeometry ==
    (cook.pc = "idle" /\ embreeScene_ # 0) =>
        /\ \A n \in ObstaclesWithModel :
              \A g \in GeometryIndices(n) :
                  /\ Cardinality(LodsInserted(n, g)) = 1
                  /\ \A l \in LodsInserted(n, g) : Cardinality(Insertions(n, g, l)) = 1
        /\ \A k \in 1..Len(AttachedGeometries) : AttachedGeometries[k].node_ \in ObstaclesWithModel

\* ------------------------------------------------------ allocation asserts
NewMapCreated(e) == allocLog[e].numAfter = Len(allocLog[e].before) + 1

\* C25: for settings that Validate accepts, whenever AllocateLightmapRegion
\* creates a map (dedicated or full-size) the first allocation in it succeeds
\* at the origin: no assert() of the function fails.
C25_FirstAllocationAtOrigin ==
    \A e \in 1..Len(allocLog) : NewMapCreated(e) => ~allocLog[e].assertFailed

\* ------------------------------------------ receivers without a renderable
ClonesOfNode(n) ==
    {<<m, c>> \in (1..Len(lightmaps_)) \X (1..MaxReceivers + 1) :
        c <= Len(lightmaps_[m].bakingScene_) /\ lightmaps_[m].bakingScene_[c].node_ = n}

NoAssertFailed == \A e \in 1..Len(allocLog) : ~allocLog[e].assertFailed

\* C26: for valid settings and any receiver list, with none, some or all of
\* the receivers lacking a renderable component, Initialize returns success,
\* never indexes the map list at an index >= the number of maps, and gives a
\* receiver without a renderable component neither a region nor a clone in a
\* baking scene.
C26_ReceiversWithoutModelSkipped ==
    (lastCall.op = "Initialize" /\ SettingsValid /\ NoAssertFailed) =>
        /\ status = "ready" /\ lastCall.ret = "true"
        /\ \A k \in 1..Len(indexedMaps) : indexedMaps[k] < Len(lightmaps_)
        /\ \A i \in Receivers :
              ~sceneNodes[lightReceivers_[i].node_].model =>
                  /\ ~HasRegion(i)
                  /\ RegionOf(i).lightmapTexelRect_ = IntRectZERO
                  /\ ClonesOfNode(lightReceivers_[i].node_) = {}

\* ------------------------------------------------------------- ray packets
PacketsOfColumn(width, x) ==
    {p \in 0..((width \div RayPacketSize) - 1) : RayPacketSize * p <= x /\ x < RayPacketSize * p + RayPacketSize}

PacketTexels(task) ==
    {task.y * task.lightmapWidth + task.rayPacketIndex * RayPacketSize + i + 1 : i \in Lanes}

\* C27: after a successful Initialize the width of every atlas is a positive
\* multiple of the ray packet width and every column of a row lies in exactly
\* one of its packets; a band task runs width / 16 packets per row, and every
\* texel index it reads from the G-buffers or writes to the output is below
\* width x height.
C27_PacketsCoverWidth ==
    /\ InitializeSucceeded =>
          \A m \in 1..Len(lightmaps_) :
              LET width == lightmaps_[m].allocator_.width
              IN  /\ width > 0 /\ width % RayPacketSize = 0
                  /\ \A x \in 0..(width - 1) : Cardinality(PacketsOfColumn(width, x)) = 1
    /\ \A k \in 1..Len(tasks) :
          /\ tasks[k].numRayPackets * RayPacketSize = data.lightmapSize_[1]
          /\ tasks[k].rayPacketIndex < tasks[k].numRayPackets
          /\ ~TaskDone(tasks[k]) =>
                \A j \in PacketTexels(tasks[k]) :
                    /\ j <= data.lightmapSize_[1] * data.lightmapSize_[2]
                    /\ j \in DOMAIN positionBuffer_
                    /\ j \in DOMAIN smoothNormalBuffer_
                    /\ j \in DOMAIN data.backedLighting_

\* A band task at the second packet of a row of the 32-wide atlas, the first
\* packet written.
C27_Witness ==
    /\ data.lightmapSize_ = <<32, 4>>
    /\ \E k \in 1..Len(tasks) :
          /\ tasks[k].rayPacketIndex = 1
          /\ \E j \in 1..Len(writers) : writers[j] = {k} /\ (j - 1) % 32 < RayPacketSize

\* ------------------------------------------------------------ map numbering
ReceiversOfMap(m) == {i \in Receivers : HasRegion(i) /\ RegionOf(i).lightmapIndex_ = m}

\* C28: after a successful Initialize every receiver with a region has a map
\* index below GetNumLightmaps, every index below GetNumLightmaps is the index
\* of some receiver's region, and the maps are numbered in creation order: a
\* map created for a receiver gets the number of maps that existed before it,
\* and the first receiver of a map precedes the first receiver of the next.
C28_MapsNumberedAndUsed ==
    InitializeSucceeded =>
        /\ \A i \in Receivers : HasRegion(i) => RegionOf(i).lightmapIndex_ < GetNumLightmaps
        /\ \A m \in 0..(GetNumLightmaps - 1) : ReceiversOfMap(m) # {}
        /\ \A e \in 1..Len(allocLog) :
              /\ allocLog[e].numAfter \in {Len(allocLog[e].before), Len(allocLog[e].before) + 1}
              /\ NewMapCreated(e) => allocLog[e].index = Len(allocLog[e].before)
        /\ \A m \in 1..(GetNumLightmaps - 1) :
              \A i \in ReceiversOfMap(m) : \E j \in ReceiversOfMap(m - 1) : j < i

\* Two maps, the first a dedicated one, each holding one receiver's region.
C28_Witness ==
    /\ InitializeSucceeded
    /\ lastCall.op = "Initialize"
    /\ GetNumLightmaps = 2
    /\ ReceiversOfMap(0) = {1} /\ ReceiversOfMap(1) = {2}
    /\ lightmaps_[1].allocator_.height = 17

====
